---- MODULE Spec2Model ----
(***************************************************************************)
(* Animal Adventure: the Collection store (js/collection.js), the card     *)
(* (js/cards.js), the map markers (js/map.js) and the application          *)
(* controller (js/app.js) as one state machine.  Every handler of the      *)
(* single-threaded event loop is one action.                               *)
(***************************************************************************)
EXTENDS Integers, Sequences, FiniteSets, TLC

\* ------------------------------------------------------------------ bounds
\* longest list of ids found under the storage key at startup
MaxStored == 2
\* pending auto-dismiss timers of the celebration overlay
MaxTimers == 1
\* size of the restored collection / largest total in the getProgress specification
MaxCount == 23
MaxProgressTotal == 40

\* ------------------------------------------------------------ JS values
\* A JavaScript value held in the Set or in a parsed JSON array: a string, a
\* number or null, tagged so that "7" and 7 differ as they do under SameValueZero.
JStr(s) == [t |-> "str", v |-> s]

\* Iterating a JS string yields its characters (strings of the bounded universe).
Chars(s) ==
    CASE s = "AB" -> <<"A", "B">>
      [] s = "AA" -> <<"A", "A">>
      [] s = ""   -> <<>>
      [] OTHER    -> <<s>>

Has(seq, x) == \E i \in 1..Len(seq) : seq[i] = x

\* Insertion-ordered, duplicate-free content of a JS Set built from an iterable.
RECURSIVE Dedupe(_, _)
Dedupe(acc, rest) ==
    IF rest = <<>> THEN acc
    ELSE Dedupe(IF Has(acc, Head(rest)) THEN acc ELSE Append(acc, Head(rest)), Tail(rest))

\* -------------------------------------------------------------- JSON text
\* The text under the storage key is a sequence of JSON tokens.
Tok(k, v) == [k |-> k, v |-> v]
LBrack == Tok("[", "")
RBrack == Tok("]", "")
LBrace == Tok("{", "")
RBrace == Tok("}", "")
Comma  == Tok(",", "")
Junk   == Tok("junk", "")
ScalarKinds == {"str", "num", "null"}

Lit(x) == Tok(x.t, x.v)

RECURSIVE StringifyItems(_)
StringifyItems(arr) ==
    IF arr = <<>> THEN <<>>
    ELSE IF Len(arr) = 1 THEN <<Lit(arr[1])>>
    ELSE <<Lit(arr[1]), Comma>> \o StringifyItems(Tail(arr))

\* mutant: the elements are written without the separating commas
JSONstringify_noSeparator(arr) ==
    <<LBrack>> \o [i \in 1..Len(arr) |-> Lit(arr[i])] \o <<RBrack>>

\* JSON.stringify of an array of scalars
JSONstringify(arr) == <<LBrack>> \o StringifyItems(arr) \o <<RBrack>>

ParseFail == [ok |-> FALSE, items |-> <<>>]

RECURSIVE ParseElements(_)
ParseElements(toks) ==
    IF toks = <<>> THEN ParseFail
    ELSE IF toks[1].k \notin ScalarKinds THEN ParseFail
    ELSE IF Len(toks) = 1 THEN [ok |-> TRUE, items |-> <<[t |-> toks[1].k, v |-> toks[1].v]>>]
    ELSE IF toks[2] # Comma THEN ParseFail
    ELSE LET rest == ParseElements(SubSeq(toks, 3, Len(toks)))
         IN  IF rest.ok
             THEN [ok |-> TRUE, items |-> <<[t |-> toks[1].k, v |-> toks[1].v]>> \o rest.items]
             ELSE ParseFail

SyntaxError == [ok |-> FALSE, val |-> [k |-> "none", items |-> <<>>, v |-> ""]]
Parsed(k, items, v) == [ok |-> TRUE, val |-> [k |-> k, items |-> items, v |-> v]]

\* JSON.parse: a scalar, {} or a flat array of scalars; anything else throws.
JSONparse(text) ==
    IF text = <<>> THEN SyntaxError
    ELSE IF Len(text) = 1
         THEN IF text[1].k \in ScalarKinds THEN Parsed(text[1].k, <<>>, text[1].v)
              ELSE SyntaxError
    ELSE IF text = <<LBrace, RBrace>> THEN Parsed("object", <<>>, "")
    ELSE IF text[1] = LBrack /\ text[Len(text)] = RBrack
         THEN IF Len(text) = 2 THEN Parsed("array", <<>>, "")
              ELSE LET e == ParseElements(SubSeq(text, 2, Len(text) - 1))
                   IN  IF e.ok THEN Parsed("array", e.items, "") ELSE SyntaxError
    ELSE SyntaxError

\* new Set(parsed): arrays and strings are iterable, null gives the empty Set,
\* numbers and plain objects throw a TypeError.
NewSet(val) ==
    CASE val.k = "array" -> [threw |-> FALSE, items |-> Dedupe(<<>>, val.items)]
      [] val.k = "str"   ->
            [threw |-> FALSE,
             items |-> Dedupe(<<>>, [i \in 1..Len(Chars(val.v)) |-> JStr(Chars(val.v)[i])])]
      [] val.k = "null"  -> [threw |-> FALSE, items |-> <<>>]
      [] OTHER           -> [threw |-> TRUE, items |-> <<>>]

\* ------------------------------------------------------------ the catalog
Ids == {"A", "B"}
Animal(id, name, image, rarity) == [id |-> id, name |-> name, image |-> image, rarity |-> rarity]
Catalog == << Animal("A", "Alpha Croc", "img/a.png", "common"),
              Animal("B", "Beta Shark", "img/b.png", "rare") >>

\* ------------------------------------------------------- Collection store
NoItem == [present |-> FALSE, text |-> <<>>]
Item(text) == [present |-> TRUE, text |-> text]

loadFromStorage(stor) ==
    IF ~stor.present \/ stor.text = <<>>
    THEN [collection |-> <<>>, threw |-> FALSE]
    ELSE LET p == JSONparse(stor.text)
         IN  IF ~p.ok THEN [collection |-> <<>>, threw |-> FALSE]
             ELSE LET s == NewSet(p.val)
                  IN  IF s.threw THEN [collection |-> <<>>, threw |-> FALSE]
                      ELSE [collection |-> s.items, threw |-> FALSE]

\* mutant: the setItem error is not caught
saveToStorage_noCatch(coll, stor, fail) ==
    [storage |-> IF fail THEN stor ELSE Item(JSONstringify(coll)),
     wrote |-> TRUE, failed |-> fail, threw |-> fail]

saveToStorage(coll, stor, fail) ==
    [storage |-> IF fail THEN stor ELSE Item(JSONstringify(coll)),
     wrote |-> TRUE, failed |-> fail, threw |-> FALSE]

isCollected(coll, id) == Has(coll, JStr(id))

getCollectedIds(coll) == coll

\* mutant: no membership test, every call adds and returns true
collect_noMembershipTest(coll, stor, id, fail) ==
    LET c2 == Append(coll, JStr(id))
        s  == [storage |-> IF fail THEN stor ELSE Item(JSONstringify(c2)),
               wrote |-> TRUE, failed |-> fail]
    IN  [collection |-> c2, storage |-> s.storage, ret |-> TRUE, wrote |-> s.wrote,
         failed |-> s.failed, celebrated |-> TRUE, threw |-> FALSE]

\* mutant: a new id is added without being saved
collect_noSave(coll, stor, id, fail) ==
    IF Has(coll, JStr(id))
    THEN [collection |-> coll, storage |-> stor, ret |-> FALSE, wrote |-> FALSE,
          failed |-> FALSE, celebrated |-> FALSE, threw |-> FALSE]
    ELSE [collection |-> Append(coll, JStr(id)), storage |-> stor, ret |-> TRUE,
          wrote |-> FALSE, failed |-> FALSE, celebrated |-> TRUE, threw |-> FALSE]

\* mutant: a duplicate is saved and celebrated like a new id
collect_duplicateSaved(coll, stor, id, fail) ==
    LET c2 == IF Has(coll, JStr(id)) THEN coll ELSE Append(coll, JStr(id))
    IN  [collection |-> c2,
         storage |-> IF fail THEN stor ELSE Item(JSONstringify(c2)),
         ret |-> ~Has(coll, JStr(id)), wrote |-> TRUE, failed |-> fail,
         celebrated |-> TRUE, threw |-> FALSE]

collect(coll, stor, id, fail) ==
    IF Has(coll, JStr(id))
    THEN [collection |-> coll, storage |-> stor, ret |-> FALSE, wrote |-> FALSE,
          failed |-> FALSE, celebrated |-> FALSE, threw |-> FALSE]
    ELSE LET c2 == Append(coll, JStr(id))
             s  == saveToStorage(c2, stor, fail)
         IN  IF s.threw
             THEN [collection |-> c2, storage |-> s.storage, ret |-> FALSE, wrote |-> s.wrote,
                   failed |-> s.failed, celebrated |-> FALSE, threw |-> TRUE]
             ELSE [collection |-> c2, storage |-> s.storage, ret |-> TRUE, wrote |-> s.wrote,
                   failed |-> s.failed, celebrated |-> TRUE, threw |-> FALSE]

\* mutant: the set is saved but not cleared
reset_noClear(coll, stor, fail) ==
    [collection |-> coll,
     storage |-> IF fail THEN stor ELSE Item(JSONstringify(coll)),
     wrote |-> TRUE, failed |-> fail, threw |-> FALSE]

reset(coll, stor, fail) ==
    LET s == saveToStorage(<<>>, stor, fail)
    IN  [collection |-> <<>>, storage |-> s.storage, wrote |-> s.wrote,
         failed |-> s.failed, threw |-> s.threw]

\* ------------------------------------------------- IEEE-754 double arithmetic
\* getProgress computes (count / total) * 100 in binary64 and hands it to
\* Math.round.  A positive double is m / 2^frac with m an integer of 53 bits,
\* held as limbs of 13 bits, most significant first; zero has no limbs.
Significand == 53
LimbBits == 13
Base == 2 ^ LimbBits
FZero == [m |-> <<>>, frac |-> 0]

Rev(s) == [i \in 1..Len(s) |-> s[Len(s) + 1 - i]]

RECURSIVE Strip(_)
Strip(l) == IF l # <<>> /\ Head(l) = 0 THEN Strip(Tail(l)) ELSE l

RECURSIVE FromInt(_, _)
FromInt(n, acc) == IF n = 0 THEN acc ELSE FromInt(n \div Base, <<n % Base>> \o acc)

RECURSIVE ToIntL(_, _)
ToIntL(l, acc) == IF l = <<>> THEN acc ELSE ToIntL(Tail(l), acc * Base + Head(l))

\* quotient and remainder of a limb number by a small integer
RECURSIVE DivS(_, _, _, _)
DivS(l, d, r, acc) ==
    IF l = <<>> THEN [q |-> Strip(acc), r |-> r]
    ELSE DivS(Tail(l), d, (r * Base + Head(l)) % d, Append(acc, (r * Base + Head(l)) \div d))

DivSmall(l, d) == DivS(l, d, 0, <<>>)

\* product of a limb number (least significant limb first) and a small integer
RECURSIVE MulS(_, _, _, _)
MulS(rev, k, carry, acc) ==
    IF rev = <<>> THEN FromInt(carry, <<>>) \o acc
    ELSE MulS(Tail(rev), k, (Head(rev) * k + carry) \div Base,
              <<(Head(rev) * k + carry) % Base>> \o acc)

MulSmall(l, k) == MulS(Rev(l), k, 0, <<>>)

RECURSIVE IncS(_, _)
IncS(rev, acc) ==
    IF rev = <<>> THEN <<1>> \o acc
    ELSE IF Head(rev) = Base - 1 THEN IncS(Tail(rev), <<0>> \o acc)
    ELSE Rev(Tail(rev)) \o <<Head(rev) + 1>> \o acc

Inc(l) == IncS(Rev(l), <<>>)

IsOdd(l) == l # <<>> /\ l[Len(l)] % 2 = 1

BitLen(l) ==
    IF l = <<>> THEN 0
    ELSE LimbBits * (Len(l) - 1)
         + (CHOOSE b \in 1..LimbBits : 2 ^ (b - 1) <= l[1] /\ l[1] < 2 ^ b)

\* n * 2^s and floor(l / 2^f) on limb numbers
ShiftLeftInt(n, s) ==
    FromInt(n * 2 ^ (s % LimbBits), <<>>) \o [i \in 1..(s \div LimbBits) |-> 0]

ShiftRight(l, f) ==
    IF f \div LimbBits >= Len(l) THEN <<>>
    ELSE DivSmall(SubSeq(l, 1, Len(l) - f \div LimbBits), 2 ^ (f % LimbBits)).q

\* round to nearest, ties to even: q with remainder r of a division by d
RoundNearestEven(q, r, d) ==
    IF 2 * r > d \/ (2 * r = d /\ IsOdd(q)) THEN Inc(q) ELSE q

RECURSIVE NormUp(_, _, _)
NormUp(n, d, e) == IF n >= 2 * d THEN NormUp(n, 2 * d, e + 1) ELSE e

RECURSIVE NormDown(_, _, _)
NormDown(n, d, e) == IF n < d THEN NormDown(2 * n, d, e - 1) ELSE e

\* c / t in binary64, for integers c >= 0 and t >= 1
FDiv(c, t) ==
    IF c = 0 THEN FZero
    ELSE LET e == IF c >= t THEN NormUp(c, t, 0) ELSE NormDown(c, t, 0)
             s == (Significand - 1) - e
             d == DivSmall(ShiftLeftInt(c, s), t)
         IN  [m |-> RoundNearestEven(d.q, d.r, t), frac |-> s]

\* x * k in binary64, for a small integer k >= 1
FMul(x, k) ==
    IF x.m = <<>> THEN FZero
    ELSE LET p    == MulSmall(x.m, k)
             drop == BitLen(p) - Significand
         IN  IF drop <= 0 THEN [m |-> p, frac |-> x.frac]
             ELSE LET d == DivSmall(p, 2 ^ drop)
                  IN  [m |-> RoundNearestEven(d.q, d.r, 2 ^ drop), frac |-> x.frac - drop]

\* Math.round: the nearest integer, ties towards +Infinity (0 <= x < 2^31)
MathRound(x) ==
    IF x.m = <<>> THEN 0
    ELSE IF x.frac <= 0 THEN ToIntL(x.m, 0) * 2 ^ (0 - x.frac)
    ELSE ToIntL(ShiftRight(x.m, x.frac), 0)
         + (IF IsOdd(ShiftRight(x.m, x.frac - 1)) THEN 1 ELSE 0)

getProgress(coll, total) ==
    LET count == Len(coll)
    IN  [collected |-> count, total |-> total,
         percentage |-> MathRound(FMul(FDiv(count, total), 100))]

\* --------------------------------------------------------------- the views
NullAnimal == Animal("", "", "", "")

\* Cards: the collect button as show() and setCollected() leave it
Button(disabled, label) == [disabled |-> disabled, label |-> label]

show(animal, collected) ==
    [currentAnimal |-> animal,
     btnCollect |-> IF collected THEN Button(TRUE, "Collected!") ELSE Button(FALSE, "Collect!"),
     active |-> TRUE]

setCollected(btn, collected) == IF collected THEN Button(TRUE, "Collected!") ELSE btn

\* GameMap: a marker with the two state classes updateMarkerState toggles
createMarker(animal) ==
    [animalId |-> animal.id, rarity |-> animal.rarity, collected |-> FALSE, undiscovered |-> FALSE]

placeMarkers(list) == [i \in 1..Len(list) |-> createMarker(list[i])]

FirstIndex(ms, animalId) ==
    IF \E i \in 1..Len(ms) : ms[i].animalId = animalId
    THEN CHOOSE i \in 1..Len(ms) :
             /\ ms[i].animalId = animalId
             /\ \A j \in 1..(i - 1) : ms[j].animalId # animalId
    ELSE 0

\* mutant: the marker is left as it is
updateMarkerState_missing(ms, animalId, collected) == ms

updateMarkerState(ms, animalId, collected) ==
    LET i == FirstIndex(ms, animalId)
    IN  IF i = 0 THEN ms
        ELSE [ms EXCEPT ![i].collected = collected, ![i].undiscovered = ~collected]

updateAllMarkerStates(ms, collectedIds) ==
    [i \in 1..Len(ms) |-> [ms[i] EXCEPT !.collected = Has(collectedIds, JStr(ms[i].animalId))]]

\* mutant: the name is shown whether owned or not
createGalleryItem_leaksName(animal, coll) ==
    LET isOwned == Has(coll, JStr(animal.id))
    IN  [rarity |-> animal.rarity,
         collected |-> isOwned,
         undiscovered |-> ~isOwned,
         imgSrc |-> IF isOwned THEN animal.image ELSE "",
         imgAlt |-> IF isOwned THEN animal.name ELSE "",
         silhouette |-> ~isOwned,
         nameText |-> animal.name,
         clickable |-> isOwned,
         animal |-> IF isOwned THEN animal ELSE NullAnimal]

\* Collection gallery
createGalleryItem(animal, coll) ==
    LET isOwned == Has(coll, JStr(animal.id))
    IN  [rarity |-> animal.rarity,
         collected |-> isOwned,
         undiscovered |-> ~isOwned,
         imgSrc |-> IF isOwned THEN animal.image ELSE "",
         imgAlt |-> IF isOwned THEN animal.name ELSE "",
         silhouette |-> ~isOwned,
         nameText |-> IF isOwned THEN animal.name ELSE "???",
         clickable |-> isOwned,
         animal |-> IF isOwned THEN animal ELSE NullAnimal]

renderGallery(list, coll) == [i \in 1..Len(list) |-> createGalleryItem(list[i], coll)]

\* ------------------------------------------------------------- AnimalData
MaxFetches == 3

\* what the fetch of data/animals.json can come to: the catalog, an empty list,
\* a rejected fetch, a response that is not ok, a body that is not JSON
Response(kind, body) == [kind |-> kind, body |-> body]
FailedResponses ==
    {Response(k, <<>>) : k \in {"unreachable", "status", "malformed"}}
Responses == {Response("ok", Catalog), Response("ok", <<>>)} \cup FailedResponses

\* loadAnimals from its await of the fetch on; data is the module's animals and loaded
loadAnimals(data, resp) ==
    IF resp.kind = "ok"
    THEN [animals |-> resp.body, loaded |-> TRUE, ret |-> resp.body]
    ELSE [animals |-> data.animals, loaded |-> data.loaded, ret |-> <<>>]

LoadErrorText == "Could not load animal data. Please try refreshing the page."

\* App.init without the check of the list's length
init_noLengthCheck(list, coll) ==
    [phase |-> "ready", errorMessage |-> "", threw |-> FALSE,
     markers |-> updateAllMarkerStates(placeMarkers(list), getCollectedIds(coll))]

\* App.init from its await of loadAnimals on
init(list, coll) ==
    IF Len(list) = 0
    THEN [phase |-> "failed", errorMessage |-> LoadErrorText, threw |-> FALSE,
          markers |-> <<>>]
    ELSE [phase |-> "ready", errorMessage |-> "", threw |-> FALSE,
          markers |-> updateAllMarkerStates(placeMarkers(list), getCollectedIds(coll))]

\* ---------------------------------------------------------------- filters
\* the names GameMap's public API exports
GameMapApi == {"init", "placeMarkers", "updateMarkerState", "updateAllMarkerStates"}

\* data-filter of the filter buttons
FilterKeys == {"all", "land", "sea", "deadly", "dinosaur"}

\* the click listener of a filter button: the active class moves to the button,
\* then GameMap.filterMarkers is called, which is a TypeError when GameMap has no
\* such function; nothing in GameMap shows or hides a marker
filterClick(hidden, k) ==
    [activeFilter |-> k, hiddenMarkers |-> hidden, threw |-> "filterMarkers" \notin GameMapApi]

\* ------------------------------------------------------------------ Speech
MaxFacts == 2
MaxQueue == 2
MaxStale == 2

NoPractice == [present |-> FALSE, hasGKSound |-> FALSE, targetSound |-> ""]
Practice(flag, sound) == [present |-> TRUE, hasGKSound |-> flag, targetSound |-> sound]
Record(name, category, facts, practice) ==
    [name |-> name, category |-> category, facts |-> facts, speechPractice |-> practice]

\* the attributes of the catalog's animals that the card does not keep in Animal
Details(id) ==
    IF id = "A"
    THEN [category |-> "deadly", habitat |-> "land", facts |-> <<"Fast", "Loud">>,
          speechPractice |-> Practice(TRUE, "k")]
    ELSE [category |-> "dinosaur", habitat |-> "sea", facts |-> <<"Big">>,
          speechPractice |-> NoPractice]
RecordOf(animal) ==
    LET d == Details(animal.id)
    IN  Record(animal.name, d.category, d.facts, d.speechPractice)

toUpperCase(str) ==
    CASE str = "k" -> "K"
      [] str = "g" -> "G"
      [] OTHER -> str

RECURSIVE join(_, _)
join(parts, sep) ==
    IF Len(parts) = 0 THEN ""
    ELSE IF Len(parts) = 1 THEN parts[1]
    ELSE parts[1] \o sep \o join(Tail(parts), sep)

FactParts(facts) ==
    [i \in 1..Len(facts) |-> "Fact " \o ToString(i) \o ": " \o facts[i]]

\* buildSpeechText that leaves out the numbering of the facts
buildSpeechText_unnumbered(animal) ==
    LET category == IF animal.category = "dinosaur" THEN "is an Australian dinosaur"
                    ELSE "is one of Australia's deadly creatures"
        facts    == IF Len(animal.facts) > 0
                    THEN <<"Here are some fun facts:">> \o animal.facts
                    ELSE <<>>
        practice == IF animal.speechPractice.present /\ animal.speechPractice.hasGKSound
                    THEN << "Now let's practice saying " \o animal.name \o "!",
                            "Listen for the " \o toUpperCase(animal.speechPractice.targetSound)
                                \o " sound." >>
                    ELSE <<>>
    IN  join(<<animal.name, category>> \o facts \o practice, ". ")

buildSpeechText(animal) ==
    LET category == IF animal.category = "dinosaur" THEN "is an Australian dinosaur"
                    ELSE "is one of Australia's deadly creatures"
        facts    == IF Len(animal.facts) > 0
                    THEN <<"Here are some fun facts:">> \o FactParts(animal.facts)
                    ELSE <<>>
        practice == IF animal.speechPractice.present /\ animal.speechPractice.hasGKSound
                    THEN << "Now let's practice saying " \o animal.name \o "!",
                            "Listen for the " \o toUpperCase(animal.speechPractice.targetSound)
                                \o " sound." >>
                    ELSE <<>>
    IN  join(<<animal.name, category>> \o facts \o practice, ". ")

\* The Speech module's state and the browser's speechSynthesis as one record sp:
\* supported, speaking, speakBtn, synthQueue, engineSpeaking, stale.
Utterance(text, rate) == [text |-> text, rate |-> rate]

\* speechSynthesis.cancel(): every utterance leaves the queue.  The one being spoken
\* stops at once and its end or error event is delivered later; an utterance that
\* had not started gets an error event where the browser sends one (fires).
cancel(sp, fires) ==
    LET spoken    == IF sp.engineSpeaking THEN 1 ELSE 0
        unstarted == Len(sp.synthQueue) - spoken
    IN  [sp EXCEPT !.synthQueue = <<>>, !.engineSpeaking = FALSE,
                   !.stale = @ + spoken + (IF fires THEN unstarted ELSE 0)]

stop(sp, fires) ==
    LET c == IF sp.supported THEN cancel(sp, fires) ELSE sp
    IN  [c EXCEPT !.speaking = FALSE, !.speakBtn = FALSE]

\* speak that hands the utterance over without cancelling first
speak_noCancel(sp, text, rate, fires) ==
    IF ~sp.supported THEN sp
    ELSE [sp EXCEPT !.synthQueue = Append(@, Utterance(text, rate))]

speak(sp, text, rate, fires) ==
    IF ~sp.supported THEN sp
    ELSE [stop(sp, fires) EXCEPT !.synthQueue = Append(@, Utterance(text, rate))]

speakName(sp, name, fires) == speak(sp, name, "0.7", fires)

handleSpeakClick(sp, animal, fires) ==
    IF sp.speaking THEN stop(sp, fires)
    ELSE IF animal = NullAnimal THEN sp
    ELSE speak(sp, buildSpeechText(RecordOf(animal)), "0.9", fires)

\* Cards.hide
hide(sp, fires) ==
    [active |-> FALSE, currentAnimal |-> NullAnimal,
     speech |-> IF sp.speaking THEN stop(sp, fires) ELSE sp]

\* ------------------------------------------------------------------- state
VARIABLES
    storage,            \* localStorage item under STORAGE_KEY
    collection,         \* Collection: the Set, in insertion order
    progressCount,      \* text of #progress-count
    celebrationHidden,  \* #celebration.hidden
    timers,             \* pending celebration auto-dismiss timeouts
    phase,              \* App.init: "loading" (awaiting the fetch), "ready", "failed"
    animals,            \* AnimalData: the loaded catalog
    markers,            \* GameMap: the placed markers
    currentAnimal,      \* Cards: the displayed animal or null
    cardActive,         \* Cards: the modal carries class active
    btnCollect,         \* Cards: #btn-collect
    galleryActive,      \* Collection: the gallery modal carries class active
    grid,               \* Collection: the rendered gallery items
    lastWrite,          \* history: outcome of the last setItem since startup
    called,             \* history: ids handed to collect since startup or reset
    lastCall,           \* history: the last operation and what it did
    loaded,             \* AnimalData: loaded
    pendingLoads,       \* loadAnimals calls of other callers that await their fetch
    fetches,            \* history: fetch() calls issued since startup
    errorMessage,       \* the message showError put into .main, "" if none
    activeFilter,       \* the filter button that carries filter-btn--active
    hiddenMarkers,      \* ids of the markers the map does not show
    supported,          \* Speech: supported (synth is set exactly when it is TRUE)
    speaking,           \* Speech: speaking
    speakBtn,           \* #btn-speak carries class speaking
    synthQueue,         \* speechSynthesis: the utterances handed over, not yet finished
    engineSpeaking,     \* speechSynthesis: the head of the queue is being spoken
    stale,              \* end/error events of cancelled utterances, not yet delivered
    record,             \* the animal record handed to buildSpeechText
    narration           \* the text buildSpeechText returned

loadVars == <<loaded, pendingLoads, fetches, errorMessage>>
filterVars == <<activeFilter, hiddenMarkers>>
speechVars == <<supported, speaking, speakBtn, synthQueue, engineSpeaking, stale>>
narrationVars == <<record, narration>>
sideVars == <<loadVars, filterVars, speechVars, narrationVars>>

vars == <<storage, collection, progressCount, celebrationHidden, timers, phase, animals,
          markers, currentAnimal, cardActive, btnCollect, galleryActive, grid,
          lastWrite, called, lastCall, sideVars>>

storeVars == <<storage, collection, progressCount, celebrationHidden, timers, lastWrite, called>>
cardVars == <<currentAnimal, cardActive, btnCollect>>
galleryVars == <<galleryActive, grid>>
mapVars == <<phase, animals, markers>>

NoProgress == [collected |-> 0, total |-> 0, percentage |-> 0]
NoCall ==
    [op |-> "none", id |-> "", total |-> 0, ret |-> FALSE, first |-> FALSE, had |-> FALSE,
     before |-> <<>>, wrote |-> FALSE, failed |-> FALSE, celebrated |-> FALSE,
     threw |-> FALSE, progress |-> NoProgress]
Call(op) == [NoCall EXCEPT !.op = op]

WriteStatus(r) == IF ~r.wrote THEN lastWrite ELSE IF r.failed THEN "failed" ELSE "ok"

\* ------------------------------------------------------------ the storage
RECURSIVE NoDupSeqs(_, _)
NoDupSeqs(S, n) ==
    IF n = 0 THEN {<<>>}
    ELSE LET shorter == NoDupSeqs(S, n - 1)
         IN  shorter \cup
             {Append(pr[1], pr[2]) :
                 pr \in {qx \in shorter \X S : Len(qx[1]) = n - 1 /\ ~Has(qx[1], qx[2])}}

IdLists == NoDupSeqs({JStr(id) : id \in Ids}, MaxStored)

\* What the program may find under its key at startup: nothing, lists it wrote in
\* an earlier session, and text it did not write.
ForeignTexts ==
    { <<>>,
      <<LBrack, Tok("str", "A")>>,
      <<Junk>>,
      <<Tok("str", "AB")>>,
      <<Tok("num", "7")>>,
      <<Tok("null", "")>>,
      <<LBrace, RBrace>>,
      <<LBrack, Tok("num", "7"), RBrack>>,
      <<LBrack, Tok("str", "A"), Comma, Tok("str", "A"), RBrack>> }

InitialStorage ==
    {NoItem} \cup {Item(JSONstringify(q)) : q \in IdLists} \cup {Item(t) : t \in ForeignTexts}

\* ----------------------------------------------------------------- startup
NoRecord == Record("", "", <<>>, NoPractice)

\* what App.init leaves outside the store, the map and the card up to its await:
\* Speech.init has looked for speechSynthesis (sup), loadAnimals has issued its fetch
SideInit(sup) ==
    /\ loaded = FALSE
    /\ pendingLoads = 0
    /\ fetches = 1
    /\ errorMessage = ""
    /\ activeFilter = ""
    /\ hiddenMarkers = {}
    /\ supported = sup
    /\ speaking = FALSE
    /\ speakBtn = FALSE
    /\ synthQueue = <<>>
    /\ engineSpeaking = FALSE
    /\ stale = 0
    /\ record = NoRecord
    /\ narration = ""

\* DOMContentLoaded: App.init up to the await of the catalog fetch
Startup(stor) ==
    LET l == loadFromStorage(stor)
    IN  /\ storage' = stor
        /\ collection' = l.collection
        /\ progressCount' = Len(l.collection)
        /\ celebrationHidden' = TRUE
        /\ timers' = 0
        /\ phase' = "loading"
        /\ animals' = <<>>
        /\ markers' = <<>>
        /\ currentAnimal' = NullAnimal
        /\ cardActive' = FALSE
        /\ btnCollect' = Button(FALSE, "Collect!")
        /\ galleryActive' = FALSE
        /\ grid' = <<>>
        /\ lastWrite' = "none"
        /\ called' = {}
        /\ lastCall' = [Call("init") EXCEPT !.threw = l.threw, !.before = collection]
        /\ loaded' = FALSE
        /\ pendingLoads' = 0
        /\ fetches' = 1
        /\ errorMessage' = ""
        /\ activeFilter' = ""
        /\ hiddenMarkers' = {}
        /\ speaking' = FALSE
        /\ speakBtn' = FALSE
        /\ synthQueue' = <<>>
        /\ engineSpeaking' = FALSE
        /\ stale' = 0
        /\ UNCHANGED <<supported, narrationVars>>

\* the state at App.init's await, with stor under the storage key and speechSynthesis
\* present or not (sup)
Boot(stor, sup) ==
    LET l == loadFromStorage(stor)
    IN  /\ storage = stor
        /\ collection = l.collection
        /\ progressCount = Len(l.collection)
        /\ celebrationHidden = TRUE
        /\ timers = 0
        /\ phase = "loading"
        /\ animals = <<>>
        /\ markers = <<>>
        /\ currentAnimal = NullAnimal
        /\ cardActive = FALSE
        /\ btnCollect = Button(FALSE, "Collect!")
        /\ galleryActive = FALSE
        /\ grid = <<>>
        /\ lastWrite = "none"
        /\ called = {}
        /\ lastCall = [Call("init") EXCEPT !.threw = l.threw]
        /\ SideInit(sup)

Init == \E stor \in InitialStorage : Boot(stor, TRUE)

\* the page is loaded again: module state is rebuilt, the storage item stays
Reload == Startup(storage)

\* the fetch App.init awaits is settled with resp: loadAnimals returns, init goes on
FetchSettled(resp) ==
    LET l == loadAnimals([animals |-> animals, loaded |-> loaded], resp)
        i == init(l.ret, collection)
    IN  /\ phase = "loading"
        /\ animals' = l.animals
        /\ loaded' = l.loaded
        /\ phase' = i.phase
        /\ markers' = i.markers
        /\ errorMessage' = i.errorMessage
        /\ UNCHANGED <<pendingLoads, fetches, filterVars, speechVars, narrationVars,
                       storeVars, cardVars, galleryVars>>

\* the fetch brings the catalog: markers are placed and given their collected state
FetchOk ==
    /\ FetchSettled(Response("ok", Catalog))
    /\ lastCall' = Call("fetchOk")

\* the fetch fails or brings an empty list: loadAnimals returns [], App.init shows
\* the error
FetchFail ==
    \E resp \in Responses \ {Response("ok", Catalog)} :
        /\ FetchSettled(resp)
        /\ lastCall' = [Call("fetchFail") EXCEPT !.id = resp.kind,
                            !.threw = init(loadAnimals([animals |-> animals,
                                                        loaded |-> loaded], resp).ret,
                                           collection).threw]

\* ------------------------------------------------------ Collection's API
\* the state a call of Collection.collect leaves behind
CollectEffect(id, r) ==
    /\ collection' = r.collection
    /\ storage' = r.storage
    /\ lastWrite' = WriteStatus(r)
    /\ progressCount' = IF r.ret THEN Len(r.collection) ELSE progressCount
    /\ celebrationHidden' = IF r.celebrated THEN FALSE ELSE celebrationHidden
    /\ timers' = IF r.celebrated THEN timers + 1 ELSE timers
    /\ called' = called \cup {id}

CollectCall(op, id, r) ==
    [Call(op) EXCEPT !.id = id, !.ret = r.ret, !.first = id \notin called,
                     !.had = isCollected(collection, id), !.before = collection,
                     !.wrote = r.wrote, !.failed = r.failed,
                     !.celebrated = r.celebrated, !.threw = r.threw]

Collect(id) ==
    \E fail \in BOOLEAN :
        LET r == collect(collection, storage, id, fail)
        IN  /\ r.celebrated => timers < MaxTimers
            /\ CollectEffect(id, r)
            /\ lastCall' = CollectCall("collect", id, r)
            /\ UNCHANGED <<mapVars, cardVars, galleryVars, sideVars>>

Reset ==
    \E fail \in BOOLEAN :
        LET r == reset(collection, storage, fail)
        IN  /\ collection' = r.collection
            /\ storage' = r.storage
            /\ lastWrite' = WriteStatus(r)
            /\ progressCount' = IF r.threw THEN progressCount ELSE Len(r.collection)
            /\ called' = {}
            /\ lastCall' = [Call("reset") EXCEPT !.before = collection, !.wrote = r.wrote,
                                                 !.failed = r.failed, !.threw = r.threw]
            /\ UNCHANGED <<celebrationHidden, timers, mapVars, cardVars, galleryVars, sideVars>>

\* the celebration's setTimeout fires
CelebrationTimeout ==
    /\ timers > 0
    /\ timers' = timers - 1
    /\ celebrationHidden' = TRUE
    /\ lastCall' = Call("timeout")
    /\ UNCHANGED <<storage, collection, progressCount, lastWrite, called,
                   mapVars, cardVars, galleryVars, sideVars>>

\* ------------------------------------------------------------ user events
\* click on a marker: handleAnimalClick.  The half-second marker--active highlight
\* is presentation only and not among the variables above.
MarkerClick(i) ==
    /\ phase = "ready"
    /\ i \in 1..Len(markers)
    /\ LET s == show(animals[i], isCollected(collection, animals[i].id))
       IN  /\ currentAnimal' = s.currentAnimal
           /\ btnCollect' = s.btnCollect
           /\ cardActive' = s.active
    /\ lastCall' = [Call("markerClick") EXCEPT !.id = animals[i].id]
    /\ UNCHANGED <<storeVars, mapVars, galleryVars, sideVars>>

\* click on the collect button: the handler of setupCollectHandler
CollectClick ==
    /\ phase = "ready"
    /\ cardActive
    /\ ~btnCollect.disabled
    /\ currentAnimal # NullAnimal
    /\ \E fail \in BOOLEAN :
        LET id == currentAnimal.id
            r  == collect(collection, storage, id, fail)
        IN  /\ r.celebrated => timers < MaxTimers
            /\ CollectEffect(id, r)
            /\ btnCollect' = IF r.ret THEN setCollected(btnCollect, TRUE) ELSE btnCollect
            /\ markers' = IF r.ret THEN updateMarkerState(markers, id, TRUE) ELSE markers
            /\ lastCall' = CollectCall("collectClick", id, r)
            /\ UNCHANGED <<phase, animals, currentAnimal, cardActive, galleryVars, sideVars>>

SpeechState ==
    [supported |-> supported, speaking |-> speaking, speakBtn |-> speakBtn,
     synthQueue |-> synthQueue, engineSpeaking |-> engineSpeaking, stale |-> stale]

SetSpeech(sp) ==
    /\ sp.stale <= MaxStale
    /\ Len(sp.synthQueue) <= MaxQueue
    /\ supported' = sp.supported
    /\ speaking' = sp.speaking
    /\ speakBtn' = sp.speakBtn
    /\ synthQueue' = sp.synthQueue
    /\ engineSpeaking' = sp.engineSpeaking
    /\ stale' = sp.stale

\* close button, overlay or Escape: Cards.hide
Hide ==
    /\ cardActive
    /\ \E fires \in BOOLEAN :
        LET h == hide(SpeechState, fires)
        IN  /\ cardActive' = h.active
            /\ currentAnimal' = h.currentAnimal
            /\ SetSpeech(h.speech)
            /\ lastCall' = [Call("hide") EXCEPT !.had = Len(synthQueue) > 0]
    /\ UNCHANGED <<btnCollect, storeVars, mapVars, galleryVars, loadVars, filterVars,
                   narrationVars>>

\* click on the collection toggle: showGallery
ShowGallery ==
    /\ grid' = renderGallery(animals, collection)
    /\ galleryActive' = TRUE
    /\ lastCall' = Call("showGallery")
    /\ UNCHANGED <<storeVars, mapVars, cardVars, sideVars>>

HideGallery ==
    /\ galleryActive
    /\ galleryActive' = FALSE
    /\ lastCall' = Call("hideGallery")
    /\ UNCHANGED <<grid, storeVars, mapVars, cardVars, sideVars>>

\* click on a gallery item that carries a click listener
GalleryItemClick(i) ==
    /\ galleryActive
    /\ i \in 1..Len(grid)
    /\ grid[i].clickable
    /\ galleryActive' = FALSE
    /\ LET s == show(grid[i].animal, TRUE)
       IN  /\ currentAnimal' = s.currentAnimal
           /\ btnCollect' = s.btnCollect
           /\ cardActive' = s.active
    /\ lastCall' = [Call("galleryItemClick") EXCEPT !.id = grid[i].animal.id]
    /\ UNCHANGED <<grid, storeVars, mapVars, sideVars>>

Next ==
    \/ Reload
    \/ FetchOk
    \/ FetchFail
    \/ \E id \in Ids : Collect(id)
    \/ Reset
    \/ CelebrationTimeout
    \/ \E i \in 1..Len(Catalog) : MarkerClick(i)
    \/ CollectClick
    \/ Hide
    \/ ShowGallery
    \/ HideGallery
    \/ \E i \in 1..Len(Catalog) : GalleryItemClick(i)

Spec == Init /\ [][Next]_vars

\* ------------------------------------------ getProgress as a pure function
\* A session that restored n ids from storage, then calls of getProgress(total).
RestoredList(n) == [i \in 1..n |-> JStr(ToString(i))]

InitProgress ==
    \E n \in 0..MaxCount : Boot(Item(JSONstringify(RestoredList(n))), TRUE)

GetProgress(total) ==
    /\ lastCall' = [Call("getProgress") EXCEPT !.total = total,
                                               !.progress = getProgress(collection, total)]
    /\ UNCHANGED <<storeVars, mapVars, cardVars, galleryVars, sideVars>>

NextProgress == \E total \in 1..MaxProgressTotal : GetProgress(total)

SpecProgress == InitProgress /\ [][NextProgress]_vars

\* ================================================================== claims
CollectOps == {"collect", "collectClick"}
SetOf(seq) == {seq[i] : i \in 1..Len(seq)}
EmptyList == Item(<<LBrack, RBrack>>)

\* the text under the key is a JSON array whose elements are all strings
IsIdList(stor) ==
    /\ stor.present
    /\ JSONparse(stor.text).ok
    /\ JSONparse(stor.text).val.k = "array"
    /\ \A x \in SetOf(JSONparse(stor.text).val.items) : x.t = "str"

PersistedIds(stor) == {x.v : x \in SetOf(JSONparse(stor.text).val.items)}

\* C1 (as stated): in a run of collect calls without reset, the first collect(id)
\* returns true, every later one returns false and leaves the size unchanged.
\* Stated for sessions whose storage holds a well-formed list of ids.
C1_FirstCollectTrue ==
    (lastCall.op \in CollectOps /\ IsIdList(storage)) =>
        /\ lastCall.ret = lastCall.first
        /\ ~lastCall.first => Len(collection) = Len(lastCall.before)

\* C1 (amended): the first collect(id) since startup or reset returns true exactly
\* when id is not already in the collected set (it was not restored from storage)
\* and then adds one id; every later collect(id) returns false and leaves the
\* collected set's size unchanged.
C1_FirstCollectTrueUnlessRestored ==
    lastCall.op \in CollectOps =>
        /\ lastCall.first => lastCall.ret = ~lastCall.had
        /\ lastCall.ret => Len(collection) = Len(lastCall.before) + 1
        /\ ~lastCall.first =>
               /\ ~lastCall.ret
               /\ Len(collection) = Len(lastCall.before)
        /\ isCollected(collection, lastCall.id)

C1_Witness ==
    /\ lastCall.op = "collect"
    /\ ~lastCall.first
    /\ ~lastCall.ret
    /\ lastWrite = "ok"

\* C2: collect of a new id and reset write the full set before they return, and
\* when the last write succeeded the stored text is the list of the collected set.
C2_PersistedIsCollected ==
    /\ (lastCall.op \in CollectOps /\ lastCall.ret) => lastCall.wrote
    /\ lastCall.op = "reset" => lastCall.wrote
    /\ lastWrite = "ok" =>
           /\ storage = Item(JSONstringify(collection))
           /\ IsIdList(storage) => PersistedIds(storage) = {x.v : x \in SetOf(collection)}
           /\ Len(JSONparse(storage.text).val.items) = Len(collection)

C2_Witness ==
    /\ lastCall.op = "collectClick"
    /\ lastCall.ret
    /\ lastWrite = "ok"
    /\ Len(collection) = 2
    /\ Len(JSONparse(storage.text).val.items) = 2

\* C3: initialising from storage that is absent, corrupted or not a list of ids
\* yields the empty collected set and raises nothing.
C3_CorruptYieldsEmpty ==
    (lastCall.op = "init" /\ ~IsIdList(storage)) =>
        /\ collection = <<>>
        /\ ~lastCall.threw

\* C4: a successfully persisted set is restored identically by the next startup,
\* and after a startup isCollected(id) holds exactly for the ids of the stored list.
C4_RoundTrip ==
    /\ [](lastCall.op = "init" /\ IsIdList(storage) =>
             \A id \in Ids : isCollected(collection, id) <=> id \in PersistedIds(storage))
    /\ [][(lastWrite = "ok" /\ lastCall'.op = "init") =>
             /\ SetOf(collection') = SetOf(collection)
             /\ \A id \in Ids : isCollected(collection', id) <=> isCollected(collection, id)]_vars

C4_Witness ==
    /\ lastCall.op = "init"
    /\ lastCall.before = <<JStr("B"), JStr("A")>>
    /\ collection = <<JStr("B"), JStr("A")>>
    /\ storage = Item(JSONstringify(collection))
    /\ isCollected(collection, "A")

\* C5: collect of an id already in the set changes neither the set nor the storage,
\* writes nothing and does not celebrate; only a collect returning true celebrates.
C5_DuplicateIsNoOp ==
    /\ [](lastCall.celebrated => (lastCall.op \in CollectOps /\ lastCall.ret))
    /\ [][(lastCall'.op \in CollectOps /\ isCollected(collection, lastCall'.id)) =>
             /\ UNCHANGED <<collection, storage, lastWrite, celebrationHidden, timers>>
             /\ ~lastCall'.ret
             /\ ~lastCall'.wrote
             /\ ~lastCall'.celebrated]_vars
    /\ [][(celebrationHidden /\ ~celebrationHidden') =>
             (lastCall'.op \in CollectOps /\ lastCall'.ret)]_vars

C5_Witness ==
    /\ lastCall.op = "collect"
    /\ lastCall.had
    /\ ~lastCall.ret
    /\ lastCall.before = collection
    /\ Len(collection) = 1

\* C6: a failing storage write is swallowed and the mutation stays: collect still
\* returns true, the id stays collected until a reset or restart, the store stays usable.
C6_WriteFailureKeepsMemory ==
    /\ [](lastCall.failed =>
             /\ ~lastCall.threw
             /\ lastCall.op \in CollectOps =>
                    (lastCall.ret /\ isCollected(collection, lastCall.id))
             /\ lastCall.op = "reset" => collection = <<>>)
    /\ [][\A id \in Ids :
             (isCollected(collection, id) /\ lastCall'.op \notin {"reset", "init"}) =>
                 isCollected(collection', id)]_vars

C6_Witness ==
    /\ lastCall.op = "collect"
    /\ lastCall.failed
    /\ lastCall.ret
    /\ isCollected(collection, lastCall.id)
    /\ storage # Item(JSONstringify(collection))

\* C7 (as stated): directly after reset nothing is collected, the persisted list
\* is empty and collect(id) returns true again for every id.
\* Stated for sessions whose storage holds a well-formed list of ids.
C7_ResetClearsAndPersists ==
    (lastCall.op = "reset" /\ IsIdList(storage)) =>
        /\ getCollectedIds(collection) = <<>>
        /\ \A id \in Ids : ~isCollected(collection, id)
        /\ storage = EmptyList
        /\ \A id \in Ids, fail \in BOOLEAN : collect(collection, storage, id, fail).ret

\* C7 (amended): directly after reset nothing is collected and collect(id) returns
\* true again for every id; the persisted list is empty when the storage write
\* succeeded (a failed write is swallowed and nothing else is done to the storage).
C7_ResetClearsAndPersistsIfWritten ==
    lastCall.op = "reset" =>
        /\ getCollectedIds(collection) = <<>>
        /\ \A id \in Ids : ~isCollected(collection, id)
        /\ lastCall.wrote
        /\ ~lastCall.threw
        /\ ~lastCall.failed => storage = EmptyList
        /\ progressCount = 0
        /\ \A id \in Ids, fail \in BOOLEAN : collect(collection, storage, id, fail).ret

C7_Witness ==
    /\ lastCall.op = "reset"
    /\ Len(lastCall.before) = 2
    /\ ~lastCall.failed
    /\ storage = EmptyList

\* C8: getProgress(total) returns the size of the collected set, the supplied total
\* and round(100 * collected / total), halves rounded up as Math.round does.
C8_PercentageIsRounded ==
    lastCall.op = "getProgress" =>
        LET p == lastCall.progress
        IN  /\ p.collected = Len(collection)
            /\ p.total = lastCall.total
            /\ 2 * p.percentage * p.total - p.total <= 200 * p.collected
            /\ 200 * p.collected < 2 * p.percentage * p.total + p.total

\* C9: after a collect click that newly collected the displayed animal, the card's
\* button shows the collected state and the animal's marker carries it too.
C9_CardAndMarkerTogether ==
    (lastCall.op = "collectClick" /\ lastCall.ret) =>
        /\ isCollected(collection, lastCall.id)
        /\ currentAnimal.id = lastCall.id
        /\ btnCollect = Button(TRUE, "Collected!")
        /\ \A i \in 1..Len(markers) :
               markers[i].animalId = lastCall.id =>
                   (markers[i].collected /\ ~markers[i].undiscovered)
        /\ \E i \in 1..Len(markers) : markers[i].animalId = lastCall.id

C9_Witness ==
    /\ lastCall.op = "collectClick"
    /\ lastCall.ret
    /\ lastCall.failed
    /\ Len(collection) = 2

\* C10: right after the gallery is rendered, an entry of an animal that is not
\* collected shows neither name nor image and has no click handler; an entry of a
\* collected animal shows both.
C10_GalleryRedaction ==
    lastCall.op = "showGallery" =>
        /\ Len(grid) = Len(animals)
        /\ \A i \in 1..Len(grid) :
               IF isCollected(collection, animals[i].id)
               THEN /\ grid[i].nameText = animals[i].name
                    /\ grid[i].imgSrc = animals[i].image
                    /\ grid[i].clickable
               ELSE /\ grid[i].nameText # animals[i].name
                    /\ grid[i].imgSrc # animals[i].image
                    /\ grid[i].imgAlt # animals[i].name
                    /\ grid[i].animal = NullAnimal
                    /\ grid[i].rarity = animals[i].rarity
                    /\ ~grid[i].clickable

C10_Witness ==
    /\ lastCall.op = "showGallery"
    /\ Len(grid) = 2
    /\ grid[1].undiscovered
    /\ grid[2].collected
    /\ ~isCollected(collection, "A")

\* -------------------------------------------- loadAnimals and its callers
\* Beside App.init's call at startup, other callers of the public
\* AnimalData.loadAnimals: a call returns the cached list when loaded is set and
\* issues a fetch of its own otherwise.
LoadAnimals ==
    /\ IF loaded
       THEN /\ UNCHANGED <<pendingLoads, fetches>>
            /\ lastCall' = [Call("loadAnimals") EXCEPT !.had = TRUE, !.total = Len(animals)]
       ELSE /\ fetches < MaxFetches
            /\ fetches' = fetches + 1
            /\ pendingLoads' = pendingLoads + 1
            /\ lastCall' = Call("loadAnimals")
    /\ UNCHANGED <<loaded, errorMessage, filterVars, speechVars, narrationVars, storeVars,
                   mapVars, cardVars, galleryVars>>

\* the fetch of such a call is settled: loadAnimals goes on after its await
LoadSettled(resp) ==
    LET l == loadAnimals([animals |-> animals, loaded |-> loaded], resp)
    IN  /\ pendingLoads > 0
        /\ pendingLoads' = pendingLoads - 1
        /\ animals' = l.animals
        /\ loaded' = l.loaded
        /\ lastCall' = [Call("loadSettled") EXCEPT !.id = resp.kind, !.total = Len(l.ret)]
        /\ UNCHANGED <<fetches, errorMessage, phase, markers, filterVars, speechVars,
                       narrationVars, storeVars, cardVars, galleryVars>>

NextLoad ==
    \/ FetchOk
    \/ FetchFail
    \/ LoadAnimals
    \/ \E resp \in Responses : LoadSettled(resp)

SpecLoad == Init /\ [][NextLoad]_vars

\* C11: over any sequence of load calls, those after a failed fetch and those that
\* overlap the first fetch included, at most one fetch is issued.
C11_AtMostOneFetch == fetches <= 1

\* ------------------------------------------------- startup without a catalog
\* the fetch App.init awaited has failed: rejected, not ok, or not JSON
LoadFailed == phase # "loading" /\ ~loaded

\* C12: when the catalog fetch fails (source unreachable, non-OK response, malformed
\* content) startup ends degraded, not crashed: the error message is shown, no marker
\* is placed, no exception leaves App.init, and Collection.collect still works.
C12_FetchFailureDegrades ==
    LoadFailed =>
        /\ phase = "failed"
        /\ errorMessage = LoadErrorText
        /\ markers = <<>>
        /\ (lastCall.op = "fetchFail" =>
                lastCall.id \in {r.kind : r \in FailedResponses} /\ ~lastCall.threw)
        /\ (lastCall.op = "collect" =>
                /\ ~lastCall.threw
                /\ lastCall.ret = ~lastCall.had
                /\ isCollected(collection, lastCall.id))

C12_Witness ==
    /\ LoadFailed
    /\ errorMessage = LoadErrorText
    /\ lastCall.op = "collect"
    /\ lastCall.ret
    /\ Has(collection, JStr(lastCall.id))

\* ------------------------------------------------------------------ speech
\* click on #btn-speak; the button sits in the card and is hidden without
\* speechSynthesis
SpeakClick ==
    /\ supported
    /\ cardActive
    /\ \E fires \in BOOLEAN :
        SetSpeech(handleSpeakClick(SpeechState, currentAnimal, fires))
    /\ lastCall' = [Call("speakClick") EXCEPT !.had = engineSpeaking,
                        !.total = Len(synthQueue),
                        !.ret = ~speaking /\ currentAnimal # NullAnimal]
    /\ UNCHANGED <<storeVars, mapVars, cardVars, galleryVars, loadVars, filterVars,
                   narrationVars>>

\* Speech.speakName(name), which is Speech.speak(name, {rate: 0.7})
SpeakName(i) ==
    /\ \E fires \in BOOLEAN :
        SetSpeech(speakName(SpeechState, Catalog[i].name, fires))
    /\ lastCall' = [Call("speakName") EXCEPT !.had = engineSpeaking,
                        !.total = Len(synthQueue), !.ret = supported]
    /\ UNCHANGED <<storeVars, mapVars, cardVars, galleryVars, loadVars, filterVars,
                   narrationVars>>

\* Speech.stop()
Stop ==
    /\ \E fires \in BOOLEAN : SetSpeech(stop(SpeechState, fires))
    /\ lastCall' = [Call("stop") EXCEPT !.had = engineSpeaking, !.total = Len(synthQueue)]
    /\ UNCHANGED <<storeVars, mapVars, cardVars, galleryVars, loadVars, filterVars,
                   narrationVars>>

\* the synthesizer begins the utterance at the head of its queue: utterance.onstart
UtteranceStart ==
    /\ Len(synthQueue) > 0
    /\ ~engineSpeaking
    /\ engineSpeaking' = TRUE
    /\ speaking' = TRUE
    /\ speakBtn' = TRUE
    /\ lastCall' = Call("start")
    /\ UNCHANGED <<supported, synthQueue, stale, storeVars, mapVars, cardVars, galleryVars,
                   loadVars, filterVars, narrationVars>>

\* the synthesizer finishes the utterance or fails in it: utterance.onend, onerror
UtteranceEnd ==
    /\ engineSpeaking
    /\ engineSpeaking' = FALSE
    /\ synthQueue' = Tail(synthQueue)
    /\ speaking' = FALSE
    /\ speakBtn' = FALSE
    /\ \E kind \in {"end", "error"} : lastCall' = [Call("end") EXCEPT !.id = kind]
    /\ UNCHANGED <<supported, stale, storeVars, mapVars, cardVars, galleryVars,
                   loadVars, filterVars, narrationVars>>

\* the end or error event of a cancelled utterance arrives: its onend, onerror
StaleEvent ==
    /\ stale > 0
    /\ stale' = stale - 1
    /\ speaking' = FALSE
    /\ speakBtn' = FALSE
    /\ lastCall' = Call("staleEvent")
    /\ UNCHANGED <<supported, synthQueue, engineSpeaking, storeVars, mapVars, cardVars,
                   galleryVars, loadVars, filterVars, narrationVars>>

InitSpeech == \E sup \in BOOLEAN : Boot(NoItem, sup)

NextSpeech ==
    \/ FetchOk
    \/ \E i \in 1..Len(Catalog) : MarkerClick(i)
    \/ Hide
    \/ SpeakClick
    \/ \E i \in 1..Len(Catalog) : SpeakName(i)
    \/ Stop
    \/ UtteranceStart
    \/ UtteranceEnd
    \/ StaleEvent

SpecSpeech == InitSpeech /\ [][NextSpeech]_vars

\* C13: at most one utterance is ever in the synthesizer's hands: speak cancels what
\* is active or queued before it hands the new utterance over, so after a speak the
\* queue holds the new utterance alone, not yet begun, and no two are ever active.
C13_OneUtterance ==
    /\ Len(synthQueue) <= 1
    /\ (lastCall.op \in {"speakName", "speakClick"} /\ lastCall.ret) =>
            (Len(synthQueue) = 1 /\ ~engineSpeaking)

C13_Witness ==
    /\ lastCall.op = "speakName"
    /\ lastCall.had
    /\ lastCall.ret
    /\ Len(synthQueue) = 1
    /\ stale > 0

\* ----------------------------------------------------------------- filters
\* click on the filter button with data-filter k; the listeners exist once
\* setupFilterHandlers ran
FilterClick(k) ==
    LET r == filterClick(hiddenMarkers, k)
    IN  /\ phase = "ready"
        /\ activeFilter' = r.activeFilter
        /\ hiddenMarkers' = r.hiddenMarkers
        /\ lastCall' = [Call("filterClick") EXCEPT !.id = k, !.threw = r.threw]
        /\ UNCHANGED <<loadVars, speechVars, narrationVars, storeVars, mapVars, cardVars,
                       galleryVars>>

NextFilter ==
    \/ FetchOk
    \/ FetchFail
    \/ \E k \in FilterKeys : FilterClick(k)
    \/ \E i \in 1..Len(Catalog) : MarkerClick(i)
    \/ Hide

SpecFilter == Init /\ [][NextFilter]_vars

\* an animal matches a filter key that is its habitat, its category, or "all"
Matches(id, k) == k = "all" \/ Details(id).habitat = k \/ Details(id).category = k

\* C14: a click on the filter button with key k makes the map show exactly the
\* markers whose animal matches k and hide the others, and the click handler
\* completes without error.
C14_FilterShowsMatching ==
    lastCall.op = "filterClick" =>
        /\ ~lastCall.threw
        /\ hiddenMarkers =
               {markers[i].animalId : i \in {j \in 1..Len(markers) :
                                                ~Matches(markers[j].animalId, lastCall.id)}}

\* --------------------------------------------------------- narration text
FactTexts == {"Fast", "Loud"}

RECURSIVE SeqsUpTo(_, _)
SeqsUpTo(S, n) ==
    IF n = 0 THEN {<<>>}
    ELSE LET shorter == SeqsUpTo(S, n - 1)
         IN  shorter \cup {Append(q, x) : q \in shorter, x \in S}

\* animal records handed to buildSpeechText
Records ==
    {Record(name, category, facts, practice) :
        name \in {Catalog[i].name : i \in 1..Len(Catalog)},
        category \in {"deadly", "dinosaur"},
        facts \in SeqsUpTo(FactTexts, MaxFacts),
        practice \in {NoPractice, Practice(FALSE, "k"), Practice(TRUE, "k"),
                      Practice(TRUE, "g")}}

BuildSpeechText(r) ==
    /\ record' = r
    /\ narration' = buildSpeechText(r)
    /\ lastCall' = Call("buildSpeechText")
    /\ UNCHANGED <<loadVars, filterVars, speechVars, storeVars, mapVars, cardVars,
                   galleryVars>>

NextNarration == \E r \in Records : BuildSpeechText(r)

SpecNarration == Init /\ [][NextNarration]_vars

Framing(category) ==
    IF category = "dinosaur" THEN "is an Australian dinosaur"
    ELSE "is one of Australia's deadly creatures"
Numbered(facts) == [i \in DOMAIN facts |-> "Fact " \o ToString(i) \o ": " \o facts[i]]
PracticeFlag(r) == r.speechPractice.present /\ r.speechPractice.hasGKSound
Prompt(r) ==
    IF PracticeFlag(r)
    THEN << "Now let's practice saying " \o r.name \o "!",
            "Listen for the " \o (IF r.speechPractice.targetSound = "k" THEN "K" ELSE "G")
                \o " sound." >>
    ELSE <<>>
Header(facts) == IF facts = <<>> THEN <<>> ELSE <<"Here are some fun facts:">>

\* C15 as stated: the narration is the name, the category framing sentence and the
\* facts in source order, each prefixed "Fact i:" with i from 1, joined into one
\* text; the pronunciation prompt is appended exactly when the practice flag is set.
C15_NarrationIsConcatenation ==
    lastCall.op = "buildSpeechText" =>
        narration = join(<<record.name, Framing(record.category)>>
                            \o Numbered(record.facts) \o Prompt(record), ". ")

\* C15, amended: between the framing sentence and the facts stands the header
\* "Here are some fun facts:" whenever the record has at least one fact.
C15_NarrationWithHeader ==
    lastCall.op = "buildSpeechText" =>
        narration = join(<<record.name, Framing(record.category)>> \o Header(record.facts)
                            \o Numbered(record.facts) \o Prompt(record), ". ")

C15_Witness ==
    /\ lastCall.op = "buildSpeechText"
    /\ record = Record("Alpha Croc", "deadly", <<"Fast", "Loud">>, NoPractice)
    /\ narration = "Alpha Croc. is one of Australia's deadly creatures. "
                       \o "Here are some fun facts:. Fact 1: Fast. Fact 2: Loud"

\* ------------------------------------------------------- the speaking flag
\* C16: the speaking flag tracks the active utterance under every order of the
\* speech events: isSpeaking() is true whenever an utterance has begun and has
\* neither ended nor been cancelled, and false whenever no utterance is active.
C16_FlagTracksUtterance == speaking <=> engineSpeaking

\* C17: after Cards.hide() no utterance is active and none is left to start later
\* without a new speak request.
C17_HideStopsSpeech ==
    lastCall.op = "hide" => (Len(synthQueue) = 0 /\ ~engineSpeaking)

\* ------------------------------------------------ markers and the collection
\* the events of the running page: marker clicks, collect clicks, card closes, the
\* gallery, and Collection.reset()
NextEvents ==
    \/ FetchOk
    \/ FetchFail
    \/ \E i \in 1..Len(Catalog) : MarkerClick(i)
    \/ CollectClick
    \/ Hide
    \/ ShowGallery
    \/ HideGallery
    \/ \E i \in 1..Len(Catalog) : GalleryItemClick(i)
    \/ CelebrationTimeout
    \/ Reset

\* the storage as the program itself left it: no item, or a list of ids it wrote
WrittenStorage == {NoItem} \cup {Item(JSONstringify(q)) : q \in IdLists}

InitEvents == \E stor \in WrittenStorage : Boot(stor, TRUE)

SpecEvents == InitEvents /\ [][NextEvents]_vars

\* C18: once startup has placed the markers, a marker carries the collected state
\* exactly when its animal's id is in the collected set.
C18_MarkerIffCollected ==
    phase = "ready" =>
        \A i \in 1..Len(markers) :
            markers[i].collected <=> isCollected(collection, markers[i].animalId)

====
